---------------------------- MODULE Spec2Model ----------------------------
(***************************************************************************)
(* A model of robocopyrs: the flag families and their `+` (impl Add), the  *)
(* decomposition single_variants, the serialization to OsString tokens,    *)
(* RobocopyCommandBuilder::build with the option structs it serializes,    *)
(* and RobocopyCommand::execute with OkExitCode::try_from.                 *)
(*                                                                         *)
(* Rust values are records.  A unit variant is [tag |-> "DATA"]; the       *)
(* combined variant is [tag |-> "_MULTIPLE", flags |-> <<b1, ..., bN>>]    *)
(* (Rust index i is TLA+ index i + 1).  A computation that may panic       *)
(* returns Ok(v) or Panic(msg).                                            *)
(***************************************************************************)
EXTENDS Integers, Sequences, FiniteSets, TLC

VARIABLES
    family,           \* the flag family the caller's values belong to
    overflow_checks,  \* build profile: TRUE = debug (overflow panics), FALSE = release (wraps)
    regs,             \* the caller's two bindings "x" and "y": values of the family
    src,              \* history: the constructor values combined into each binding
    call,             \* the latest `+` evaluated: its operands and its outcome
    child,            \* what the operating system reports for the child process
    result,           \* what execute / try_from / a serialization returned to the caller
    options,          \* a PerformanceChoice or RetrySettings value the caller holds
    builder,          \* the caller's RobocopyCommandBuilder
    command           \* what builder.build() returned

vars == <<family, overflow_checks, regs, src, call, child, result, options, builder, command>>

-----------------------------------------------------------------------------
(* Results, options, fixed-width arithmetic *)

Ok(v) == [ok |-> TRUE, val |-> v]

Panic(m) == [ok |-> FALSE, msg |-> m]

Bind(r, F(_)) == IF r.ok THEN F(r.val) ELSE r

Some(v) == [tag |-> "Some", val |-> v]

None == [tag |-> "None"]

\* Option::unwrap
Unwrap(o) == IF o.tag = "Some" THEN Ok(o.val) ELSE Panic("called Option::unwrap() on a None value")

U8_MAX == 255

\* a u8 result: the debug profile panics on overflow, the release profile wraps
U8(n) ==
    IF n <= U8_MAX THEN Ok(n)
    ELSE IF overflow_checks THEN Panic("arithmetic overflow")
    ELSE Ok(n % (U8_MAX + 1))

Atom(t) == [tag |-> t]

Multiple(bits) == [tag |-> "_MULTIPLE", flags |-> bits]

\* (0..count).map(|_| { val >>= 1; val == 1 }).collect::<Vec<bool>>()
RECURSIVE ShiftFlags(_, _)
ShiftFlags(val, count) ==
    IF count = 0 THEN <<>>
    ELSE LET v == val \div 2 IN <<v = 1>> \o ShiftFlags(v, count - 1)

\* Vec<bool> -> [bool; n] by try_into().unwrap()
TryIntoArray(vec, n) ==
    IF Len(vec) = n THEN Ok(vec) ELSE Panic("called Result::unwrap() on an Err value")

\* a.iter().zip(b.iter()).map(|(a, b)| *a && *b).collect::<Vec<bool>>()
ZipAnd(a, b) ==
    LET n == IF Len(a) <= Len(b) THEN Len(a) ELSE Len(b)
    IN  [k \in 1..n |-> a[k] /\ b[k]]

\* arr[i] = true
SetTrue(arr, i) ==
    IF i + 1 \in DOMAIN arr THEN Ok([arr EXCEPT ![i + 1] = TRUE])
    ELSE Panic("index out of bounds")

\* VARIANTS.iter().zip(flags.iter()).filter(|(_, exists)| **exists) ... .0
RECURSIVE ZipFilter(_, _)
ZipFilter(variants, flags) ==
    IF variants = <<>> \/ flags = <<>> THEN <<>>
    ELSE (IF Head(flags) THEN <<Head(variants)>> ELSE <<>>)
         \o ZipFilter(Tail(variants), Tail(flags))

\* String::from_iter over the selected letters
RECURSIVE Concat(_)
Concat(strs) == IF strs = <<>> THEN "" ELSE Head(strs) \o Concat(Tail(strs))

\* single_variants().iter().for_each(|filter| match filter { ... res.push(..) ... })
RECURSIVE PushAll(_)
PushAll(pushed) ==
    IF pushed = <<>> THEN Ok(<<>>)
    ELSE Bind(Head(pushed), LAMBDA toks:
         Bind(PushAll(Tail(pushed)), LAMBDA rest: Ok(toks \o rest)))

ForEachPush(variants, Token(_)) ==
    PushAll([k \in 1..Len(variants) |-> Token(variants[k])])

-----------------------------------------------------------------------------
(* FileProperties, src/src/properties.rs *)

FileProperties_VARIANTS ==
    << Atom("DATA"), Atom("ATTRIBUTES"), Atom("TIME_STAMPS"),
       Atom("NTFS_ACCESS_CONTROL_LIST"), Atom("OWNER_INFO"), Atom("AUDITING_INFO") >>

FileProperties_index_of(v) ==
    CASE v.tag = "DATA" -> Some(0)
      [] v.tag = "ATTRIBUTES" -> Some(1)
      [] v.tag = "TIME_STAMPS" -> Some(2)
      [] v.tag = "NTFS_ACCESS_CONTROL_LIST" -> Some(3)
      [] v.tag = "OWNER_INFO" -> Some(4)
      [] v.tag = "AUDITING_INFO" -> Some(5)
      [] OTHER -> None

FileProperties_add(self, rhs) ==
    LET result_props ==
            IF self.tag = "_MULTIPLE" THEN Ok(self.flags)
            ELSE Bind(Unwrap(FileProperties_index_of(self)), LAMBDA i:
                 Bind(U8(2 ^ i), LAMBDA p:
                 Bind(U8(p + 2), LAMBDA val:
                 TryIntoArray(ShiftFlags(val, 6), 6))))
    IN  Bind(result_props, LAMBDA props:
        Bind(IF rhs.tag = "_MULTIPLE"
                THEN TryIntoArray(ZipAnd(props, rhs.flags), 6)
                ELSE Bind(Unwrap(FileProperties_index_of(rhs)), LAMBDA j: SetTrue(props, j)),
             LAMBDA res: Ok(Multiple(res))))

FileProperties_single_variants(v) ==
    IF v.tag = "_MULTIPLE" THEN ZipFilter(FileProperties_VARIANTS, v.flags) ELSE <<v>>

FileProperties_into_OsString(fp) ==
    CASE fp.tag = "DATA" -> "/copy:D"
      [] fp.tag = "ATTRIBUTES" -> "/copy:A"
      [] fp.tag = "TIME_STAMPS" -> "/copy:T"
      [] fp.tag = "NTFS_ACCESS_CONTROL_LIST" -> "/copy:S"
      [] fp.tag = "OWNER_INFO" -> "/copy:O"
      [] fp.tag = "AUDITING_INFO" -> "/copy:U"
      [] fp.tag = "_MULTIPLE" ->
            "/copy:" \o Concat(ZipFilter(<<"D", "A", "T", "S", "O", "U">>, fp.flags))

FileProperties_all == Multiple([k \in 1..6 |-> TRUE])

FileProperties_none == Multiple([k \in 1..6 |-> FALSE])

-----------------------------------------------------------------------------
(* DirectoryProperties, src/src/properties.rs *)

DirectoryProperties_VARIANTS ==
    << Atom("DATA"), Atom("ATTRIBUTES"), Atom("TIME_STAMPS") >>

DirectoryProperties_index_of(v) ==
    CASE v.tag = "DATA" -> Some(0)
      [] v.tag = "ATTRIBUTES" -> Some(1)
      [] v.tag = "TIME_STAMPS" -> Some(2)
      [] OTHER -> None

DirectoryProperties_add(self, rhs) ==
    LET result_props ==
            IF self.tag = "_MULTIPLE" THEN Ok(self.flags)
            ELSE Bind(Unwrap(DirectoryProperties_index_of(self)), LAMBDA i:
                 Bind(U8(2 ^ i), LAMBDA p:
                 Bind(U8(p + 2), LAMBDA val:
                 TryIntoArray(ShiftFlags(val, 3), 3))))
    IN  Bind(result_props, LAMBDA props:
        Bind(IF rhs.tag = "_MULTIPLE"
                THEN TryIntoArray(ZipAnd(props, rhs.flags), 3)
                ELSE Bind(Unwrap(DirectoryProperties_index_of(rhs)), LAMBDA j: SetTrue(props, j)),
             LAMBDA res: Ok(Multiple(res))))

DirectoryProperties_single_variants(v) ==
    IF v.tag = "_MULTIPLE" THEN ZipFilter(DirectoryProperties_VARIANTS, v.flags) ELSE <<v>>

DirectoryProperties_into_OsString(dp) ==
    CASE dp.tag = "DATA" -> "/dcopy:D"
      [] dp.tag = "ATTRIBUTES" -> "/dcopy:A"
      [] dp.tag = "TIME_STAMPS" -> "/dcopy:T"
      [] dp.tag = "_MULTIPLE" ->
            "/dcopy:" \o Concat(ZipFilter(<<"D", "A", "T">>, dp.flags))

DirectoryProperties_all == Multiple([k \in 1..3 |-> TRUE])

DirectoryProperties_none == Multiple([k \in 1..3 |-> FALSE])

-----------------------------------------------------------------------------
(* FileAttributes, src/src/lib.rs *)

FileAttributes_VARIANTS ==
    << Atom("READ_ONLY"), Atom("ARCHIVE"), Atom("SYSTEM"), Atom("HIDDEN"),
       Atom("COMPRESSED"), Atom("NOT_CONTENT_INDEXED"), Atom("ENCRYPTED"),
       Atom("TEMPORARY") >>

FileAttributes_index_of(v) ==
    CASE v.tag = "READ_ONLY" -> Some(0)
      [] v.tag = "ARCHIVE" -> Some(1)
      [] v.tag = "SYSTEM" -> Some(2)
      [] v.tag = "HIDDEN" -> Some(3)
      [] v.tag = "COMPRESSED" -> Some(4)
      [] v.tag = "NOT_CONTENT_INDEXED" -> Some(5)
      [] v.tag = "ENCRYPTED" -> Some(6)
      [] v.tag = "TEMPORARY" -> Some(7)
      [] OTHER -> None

FileAttributes_add(self, rhs) ==
    LET result_attribs ==
            IF self.tag = "_MULTIPLE" THEN Ok(self.flags)
            ELSE Bind(Unwrap(FileAttributes_index_of(self)), LAMBDA i:
                 Bind(U8(2 ^ i), LAMBDA p:
                 Bind(U8(p * 2), LAMBDA val:
                 TryIntoArray(ShiftFlags(val, 6), 8))))
    IN  Bind(result_attribs, LAMBDA attribs:
        Bind(IF rhs.tag = "_MULTIPLE"
                THEN TryIntoArray(ZipAnd(attribs, rhs.flags), 8)
                ELSE Bind(Unwrap(FileAttributes_index_of(rhs)), LAMBDA j: SetTrue(attribs, j)),
             LAMBDA res: Ok(Multiple(res))))

FileAttributes_single_variants(v) ==
    IF v.tag = "_MULTIPLE" THEN ZipFilter(FileAttributes_VARIANTS, v.flags) ELSE <<v>>

FileAttributes_into_OsString_temporary_first(fa) ==
    CASE fa.tag = "READ_ONLY" -> "R"
      [] fa.tag = "ARCHIVE" -> "A"
      [] fa.tag = "SYSTEM" -> "S"
      [] fa.tag = "HIDDEN" -> "H"
      [] fa.tag = "COMPRESSED" -> "C"
      [] fa.tag = "NOT_CONTENT_INDEXED" -> "N"
      [] fa.tag = "ENCRYPTED" -> "E"
      [] fa.tag = "TEMPORARY" -> "T"
      [] fa.tag = "_MULTIPLE" ->
            Concat(ZipFilter(<<"T", "R", "A", "S", "H", "C", "N", "E">>,
                             <<fa.flags[8]>> \o SubSeq(fa.flags, 1, 7)))

FileAttributes_into_OsString(fa) ==
    CASE fa.tag = "READ_ONLY" -> "R"
      [] fa.tag = "ARCHIVE" -> "A"
      [] fa.tag = "SYSTEM" -> "S"
      [] fa.tag = "HIDDEN" -> "H"
      [] fa.tag = "COMPRESSED" -> "C"
      [] fa.tag = "NOT_CONTENT_INDEXED" -> "N"
      [] fa.tag = "ENCRYPTED" -> "E"
      [] fa.tag = "TEMPORARY" -> "T"
      [] fa.tag = "_MULTIPLE" ->
            Concat(ZipFilter(<<"R", "A", "S", "H", "C", "N", "E", "T">>, fa.flags))

FileAttributes_all == Multiple([k \in 1..8 |-> TRUE])

FileAttributes_none == Multiple([k \in 1..8 |-> FALSE])

-----------------------------------------------------------------------------
(* FileAndDirectoryExclusionFilter, src/src/filter.rs *)

FileAndDirectoryExclusionFilter_VARIANTS ==
    << Atom("EXTRA"), Atom("LONELY"), Atom("JUNCTION_POINTS") >>

FileAndDirectoryExclusionFilter_index_of(v) ==
    CASE v.tag = "EXTRA" -> Some(0)
      [] v.tag = "LONELY" -> Some(1)
      [] v.tag = "JUNCTION_POINTS" -> Some(2)
      [] OTHER -> None

FileAndDirectoryExclusionFilter_add(self, rhs) ==
    LET result_filters ==
            IF self.tag = "_MULTIPLE" THEN Ok(self.flags)
            ELSE Bind(Unwrap(FileAndDirectoryExclusionFilter_index_of(self)), LAMBDA i:
                 Bind(U8(2 ^ i), LAMBDA p:
                 Bind(U8(p + 2), LAMBDA val:
                 TryIntoArray(ShiftFlags(val, 6), 3))))
    IN  Bind(result_filters, LAMBDA filters:
        Bind(IF rhs.tag = "_MULTIPLE"
                THEN TryIntoArray(ZipAnd(filters, rhs.flags), 3)
                ELSE Bind(Unwrap(FileAndDirectoryExclusionFilter_index_of(rhs)),
                          LAMBDA j: SetTrue(filters, j)),
             LAMBDA res: Ok(Multiple(res))))

FileAndDirectoryExclusionFilter_single_variants(v) ==
    IF v.tag = "_MULTIPLE"
    THEN ZipFilter(FileAndDirectoryExclusionFilter_VARIANTS, v.flags)
    ELSE <<v>>

\* the match inside for_each; `_ => unreachable!()` is the last arm
FileAndDirectoryExclusionFilter_token(filter) ==
    CASE filter.tag = "EXTRA" -> Ok(<<"/xx">>)
      [] filter.tag = "LONELY" -> Ok(<<"/xl">>)
      [] filter.tag = "JUNCTION_POINTS" -> Ok(<<"/xj">>)
      [] OTHER -> Panic("internal error: entered unreachable code")

FileAndDirectoryExclusionFilter_into_Vec(fadef) ==
    ForEachPush(FileAndDirectoryExclusionFilter_single_variants(fadef),
                FileAndDirectoryExclusionFilter_token)

-----------------------------------------------------------------------------
(* FileExclusionFilterException, src/src/filter.rs *)

FileExclusionFilterException_VARIANTS ==
    << Atom("MODIFIED"), Atom("SAME"), Atom("TWEAKED") >>

FileExclusionFilterException_index_of(v) ==
    CASE v.tag = "MODIFIED" -> Some(0)
      [] v.tag = "SAME" -> Some(1)
      [] v.tag = "TWEAKED" -> Some(2)
      [] OTHER -> None

FileExclusionFilterException_add(self, rhs) ==
    LET result_filters ==
            IF self.tag = "_MULTIPLE" THEN Ok(self.flags)
            ELSE Bind(Unwrap(FileExclusionFilterException_index_of(self)), LAMBDA i:
                 Bind(U8(2 ^ i), LAMBDA p:
                 Bind(U8(p + 2), LAMBDA val:
                 TryIntoArray(ShiftFlags(val, 6), 3))))
    IN  Bind(result_filters, LAMBDA filters:
        Bind(IF rhs.tag = "_MULTIPLE"
                THEN TryIntoArray(ZipAnd(filters, rhs.flags), 3)
                ELSE Bind(Unwrap(FileExclusionFilterException_index_of(rhs)),
                          LAMBDA j: SetTrue(filters, j)),
             LAMBDA res: Ok(Multiple(res))))

FileExclusionFilterException_single_variants(v) ==
    IF v.tag = "_MULTIPLE"
    THEN ZipFilter(FileExclusionFilterException_VARIANTS, v.flags)
    ELSE <<v>>

FileExclusionFilterException_token(filter) ==
    CASE filter.tag = "MODIFIED" -> Ok(<<"/im">>)
      [] filter.tag = "SAME" -> Ok(<<"/is">>)
      [] filter.tag = "TWEAKED" -> Ok(<<"/it">>)
      [] OTHER -> Panic("internal error: entered unreachable code")

FileExclusionFilterException_into_Vec(fefe) ==
    ForEachPush(FileExclusionFilterException_single_variants(fefe),
                FileExclusionFilterException_token)

-----------------------------------------------------------------------------
(* FileExclusionFilter, src/src/filter.rs *)

Attributes(fa) == [tag |-> "Attributes", attribs |-> fa]

PathOrName(p) == [tag |-> "PathOrName", paths |-> p]

FileExclusionFilter_MULTIPLE(attribs, path_or_name, filters) ==
    [tag |-> "_MULTIPLE", attribs |-> attribs, paths |-> path_or_name, flags |-> filters]

FileExclusionFilter_VARIANTS ==
    << Atom("CHANGED"), Atom("OLDER"), Atom("NEWER"), Atom("JUNCTION_POINTS") >>

FileExclusionFilter_index_of(v) ==
    CASE v.tag = "CHANGED" -> Some(0)
      [] v.tag = "NEWER" -> Some(2)
      [] v.tag = "JUNCTION_POINTS" -> Some(3)
      [] OTHER -> None

\* result_attribs = match result_attribs { Some(res) => Some(attribs + res), None => Some(attribs) }
FileExclusionFilter_merge_attribs(result_attribs, attribs) ==
    IF result_attribs.tag = "Some"
    THEN Bind(FileAttributes_add(attribs, result_attribs.val), LAMBDA sum: Ok(Some(sum)))
    ELSE Ok(Some(attribs))

FileExclusionFilter_add(self, rhs) ==
    LET no_filters == [k \in 1..4 |-> FALSE]
        lhs ==
            CASE self.tag = "_MULTIPLE" ->
                    Ok([attribs |-> self.attribs, paths |-> self.paths, flags |-> self.flags])
              [] self.tag = "Attributes" ->
                    Ok([attribs |-> Some(self.attribs), paths |-> <<>>, flags |-> no_filters])
              [] self.tag = "PathOrName" ->
                    Ok([attribs |-> None, paths |-> self.paths, flags |-> no_filters])
              [] OTHER ->
                    Bind(Unwrap(FileExclusionFilter_index_of(self)), LAMBDA i:
                    Bind(U8(2 ^ i), LAMBDA p:
                    Bind(U8(p + 2), LAMBDA val:
                    Bind(TryIntoArray(ShiftFlags(val, 6), 4), LAMBDA filters:
                    Ok([attribs |-> None, paths |-> <<>>, flags |-> filters])))))
    IN  Bind(lhs, LAMBDA r:
        Bind(CASE rhs.tag = "_MULTIPLE" ->
                    Bind(TryIntoArray(ZipAnd(r.flags, rhs.flags), 4), LAMBDA filters:
                    Bind(IF rhs.attribs.tag = "Some"
                            THEN FileExclusionFilter_merge_attribs(r.attribs, rhs.attribs.val)
                            ELSE Ok(r.attribs),
                         LAMBDA attribs:
                    Ok([attribs |-> attribs, paths |-> r.paths \o rhs.paths, flags |-> filters])))
               [] rhs.tag = "Attributes" ->
                    Bind(FileExclusionFilter_merge_attribs(r.attribs, rhs.attribs), LAMBDA attribs:
                    Ok([r EXCEPT !.attribs = attribs]))
               [] rhs.tag = "PathOrName" ->
                    Ok([r EXCEPT !.paths = r.paths \o rhs.paths])
               [] OTHER ->
                    Bind(Unwrap(FileExclusionFilter_index_of(rhs)), LAMBDA j:
                    Bind(SetTrue(r.flags, j), LAMBDA filters:
                    Ok([r EXCEPT !.flags = filters]))),
             LAMBDA res: Ok(FileExclusionFilter_MULTIPLE(res.attribs, res.paths, res.flags))))

FileExclusionFilter_single_variants(v) ==
    IF v.tag = "_MULTIPLE"
    THEN ZipFilter(FileExclusionFilter_VARIANTS, v.flags)
         \o (IF v.attribs.tag = "Some" THEN <<Attributes(v.attribs.val)>> ELSE <<>>)
         \o (IF v.paths # <<>> THEN <<PathOrName(v.paths)>> ELSE <<>>)
    ELSE <<v>>

FileExclusionFilter_token(filter) ==
    CASE filter.tag = "Attributes" ->
            Ok(<<"/xa:" \o FileAttributes_into_OsString(filter.attribs)>>)
      [] filter.tag = "PathOrName" -> Ok(<<"/xf">> \o filter.paths)
      [] filter.tag = "CHANGED" -> Ok(<<"/xc">>)
      [] filter.tag = "OLDER" -> Ok(<<"/xo">>)
      [] filter.tag = "NEWER" -> Ok(<<"/xn">>)
      [] filter.tag = "JUNCTION_POINTS" -> Ok(<<"/xjf">>)
      [] OTHER -> Panic("internal error: entered unreachable code")

FileExclusionFilter_into_Vec(fef) ==
    ForEachPush(FileExclusionFilter_single_variants(fef), FileExclusionFilter_token)

-----------------------------------------------------------------------------
(* Exit codes, src/src/exit_codes.rs *)

\* #[repr(i8)]: the range of the argument of try_from
I8_MIN == -128

I8_MAX == 127

\* enum OkExitCode: the discriminant of each variant
OkExitCode_discriminant(code) ==
    CASE code = "NO_CHANGE" -> 0
      [] code = "SOME_COPIES" -> 1
      [] code = "EXTRA_FOUND" -> 2
      [] code = "SOME_COPIES_EXTRA_FOUND" -> 3
      [] code = "MISMATCHES" -> 4
      [] code = "SOME_COPIES_MISMATCHES" -> 5
      [] code = "MISMATCHES_EXTRA_FOUND" -> 6
      [] code = "SOME_COPIES_MISMATCHES_EXTRA_FOUND" -> 7

\* enum ErrExitCode: the discriminant of each unit variant
ErrExitCode_discriminant(code) ==
    CASE code = "FAIL" -> 8
      [] code = "SOME_COPIES_FAIL" -> 9
      [] code = "FAIL_EXTRA_FOUND" -> 10
      [] code = "SOME_COPIES_FAIL_EXTRA_FOUND" -> 11
      [] code = "FAIL_MISMATCHES" -> 12
      [] code = "SOME_COPIES_FAIL_MISMATCHES" -> 13
      [] code = "FAIL_MISMATCHES_EXTRA_FOUND" -> 14
      [] code = "SOME_COPIES_FAIL_MISMATCHES_EXTRA_FOUND" -> 15
      [] code = "NO_CHANGE_FATAL_ERROR" -> 16

INVALID_EXIT_CODE(c) == [tag |-> "INVALID_EXIT_CODE", n |-> c]

\* Result<OkExitCode, ErrExitCode>
ResOk(code) == [tag |-> "Ok", code |-> code]

ResErr(e) == [tag |-> "Err", err |-> e]

\* a plausible slip in the boundary test
IsOkCode_off_by_one(n) == n <= 8

\* `if n < 8`
IsOkCode(n) == n < 8

OkExitCode_try_from(n) ==
    IF IsOkCode(n)
    THEN CASE n = 0 -> Ok(ResOk("NO_CHANGE"))
           [] n = 1 -> Ok(ResOk("SOME_COPIES"))
           [] n = 2 -> Ok(ResOk("EXTRA_FOUND"))
           [] n = 3 -> Ok(ResOk("SOME_COPIES_EXTRA_FOUND"))
           [] n = 4 -> Ok(ResOk("MISMATCHES"))
           [] n = 5 -> Ok(ResOk("SOME_COPIES_MISMATCHES"))
           [] n = 6 -> Ok(ResOk("MISMATCHES_EXTRA_FOUND"))
           [] n = 7 -> Ok(ResOk("SOME_COPIES_MISMATCHES_EXTRA_FOUND"))
           [] OTHER -> Panic("internal error: entered unreachable code")
    ELSE CASE n = 8 -> Ok(ResErr(Atom("FAIL")))
           [] n = 9 -> Ok(ResErr(Atom("SOME_COPIES_FAIL")))
           [] n = 10 -> Ok(ResErr(Atom("FAIL_EXTRA_FOUND")))
           [] n = 11 -> Ok(ResErr(Atom("SOME_COPIES_FAIL_EXTRA_FOUND")))
           [] n = 12 -> Ok(ResErr(Atom("FAIL_MISMATCHES")))
           [] n = 13 -> Ok(ResErr(Atom("SOME_COPIES_FAIL_MISMATCHES")))
           [] n = 14 -> Ok(ResErr(Atom("FAIL_MISMATCHES_EXTRA_FOUND")))
           [] n = 15 -> Ok(ResErr(Atom("SOME_COPIES_FAIL_MISMATCHES_EXTRA_FOUND")))
           [] n = 16 -> Ok(ResErr(Atom("NO_CHANGE_FATAL_ERROR")))
           [] OTHER -> Ok(ResErr(INVALID_EXIT_CODE(n)))

-----------------------------------------------------------------------------
(* RobocopyCommand::execute, src/src/lib.rs *)

\* `code as i8`: an i32 narrowed to its low 8 bits, read as two's complement
AsI8(code) == ((code - I8_MIN) % (I8_MAX - I8_MIN + 1)) + I8_MIN

\* enum Error and its two From conversions
Error_ExitCode(e) == [tag |-> "ExitCode", code |-> e]

Error_IoError == [tag |-> "IoError"]

\* what Command::status() and ExitStatus::code() can report
SpawnFailed == [kind |-> "spawn_error"]

KilledBySignal == [kind |-> "signal"]

Exited(code) == [kind |-> "exit", code |-> code]

RobocopyCommand_execute_signal_as_zero(outcome) ==
    IF outcome.kind = "spawn_error" THEN Ok(ResErr(Error_IoError))
    ELSE LET exit_code == IF outcome.kind = "signal" THEN 0 ELSE AsI8(outcome.code)
         IN  Bind(OkExitCode_try_from(exit_code), LAMBDA r:
                  IF r.tag = "Err" THEN Ok(ResErr(Error_ExitCode(r.err))) ELSE Ok(r))

RobocopyCommand_execute_spawn_error_as_code(outcome) ==
    IF outcome.kind = "signal" THEN Panic("Process terminated by signal")
    ELSE LET exit_code == IF outcome.kind = "spawn_error" THEN 16 ELSE AsI8(outcome.code)
         IN  Bind(OkExitCode_try_from(exit_code), LAMBDA r:
                  IF r.tag = "Err" THEN Ok(ResErr(Error_ExitCode(r.err))) ELSE Ok(r))

RobocopyCommand_execute(outcome) ==
    IF outcome.kind = "spawn_error" THEN Ok(ResErr(Error_IoError))
    ELSE IF outcome.kind = "signal" THEN Panic("Process terminated by signal")
    ELSE LET exit_code == AsI8(outcome.code)
         IN  Bind(OkExitCode_try_from(exit_code), LAMBDA r:
                  IF r.tag = "Err" THEN Ok(ResErr(Error_ExitCode(r.err))) ELSE Ok(r))

-----------------------------------------------------------------------------
(* PostCopyActions (lib.rs) *)

AddAttribsToFiles(attribs) == [tag |-> "AddAttribsToFiles", attribs |-> attribs]

RmvAttribsFromFiles(attribs) == [tag |-> "RmvAttribsFromFiles", attribs |-> attribs]

PostCopyActions_MULTIPLE(add, rmv) == [tag |-> "_MULTIPLE", add |-> add, rmv |-> rmv]

\* if let Some(attribs) = slot { slot = Some(attribs + more); }
PostCopyActions_extend(slot, more) ==
    IF slot.tag = "Some"
    THEN Bind(FileAttributes_add(slot.val, more), LAMBDA sum: Ok(Some(sum)))
    ELSE Ok(slot)

PostCopyActions_add(self, rhs) ==
    LET init ==
            CASE self.tag = "_MULTIPLE" -> [add_attribs |-> Some(self.add),
                                            rmv_attribs |-> Some(self.rmv)]
              [] self.tag = "AddAttribsToFiles" -> [add_attribs |-> None,
                                                    rmv_attribs |-> Some(self.attribs)]
              [] self.tag = "RmvAttribsFromFiles" -> [add_attribs |-> Some(self.attribs),
                                                      rmv_attribs |-> None]
        add_attribs ==
            CASE rhs.tag = "_MULTIPLE" -> PostCopyActions_extend(init.add_attribs, rhs.add)
              [] rhs.tag = "AddAttribsToFiles" ->
                    PostCopyActions_extend(init.add_attribs, rhs.attribs)
              [] rhs.tag = "RmvAttribsFromFiles" -> Ok(init.add_attribs)
        rmv_attribs ==
            CASE rhs.tag = "_MULTIPLE" -> PostCopyActions_extend(init.rmv_attribs, rhs.rmv)
              [] rhs.tag = "AddAttribsToFiles" -> Ok(init.rmv_attribs)
              [] rhs.tag = "RmvAttribsFromFiles" ->
                    PostCopyActions_extend(init.rmv_attribs, rhs.attribs)
    IN  Bind(add_attribs, LAMBDA a:
        Bind(rmv_attribs, LAMBDA r:
            CASE a.tag = "Some" /\ r.tag = "Some" -> Ok(PostCopyActions_MULTIPLE(a.val, r.val))
              [] a.tag = "None" /\ r.tag = "Some" -> Ok(RmvAttribsFromFiles(r.val))
              [] a.tag = "Some" /\ r.tag = "None" -> Ok(AddAttribsToFiles(a.val))
              [] OTHER -> Panic("use default rather than PostCopyActions::_MULTIPLE(FileAttributes::none(), FileAttributes::none())")))

PostCopyActions_into_Vec(pca) ==
    CASE pca.tag = "AddAttribsToFiles" ->
            <<"/a+:" \o FileAttributes_into_OsString(pca.attribs)>>
      [] pca.tag = "RmvAttribsFromFiles" ->
            <<"/a-:" \o FileAttributes_into_OsString(pca.attribs)>>
      [] pca.tag = "_MULTIPLE" ->
            <<"/a+:" \o FileAttributes_into_OsString(pca.add),
              "/a-:" \o FileAttributes_into_OsString(pca.rmv)>>

PostCopyActions_single_variants(v) ==
    IF v.tag = "_MULTIPLE"
    THEN <<AddAttribsToFiles(v.add), RmvAttribsFromFiles(v.rmv)>>
    ELSE <<v>>

-----------------------------------------------------------------------------
(* DirectoryExclusionFilter (filter.rs) *)

DirectoryExclusionFilter_PathOrName(p) == [tag |-> "PathOrName", paths |-> p]

DirectoryExclusionFilter_BOTH(p) == [tag |-> "_BOTH", paths |-> p]

DirectoryExclusionFilter_single_variants(v) ==
    CASE v.tag = "_BOTH" ->
            <<Atom("JUNCTION_POINTS"), DirectoryExclusionFilter_PathOrName(v.paths)>>
      [] v.tag = "JUNCTION_POINTS" -> <<Atom("JUNCTION_POINTS")>>
      [] v.tag = "PathOrName" -> <<DirectoryExclusionFilter_PathOrName(v.paths)>>

DirectoryExclusionFilter_token(filter) ==
    CASE filter.tag = "PathOrName" -> Ok(<<"/xd">> \o filter.paths)
      [] filter.tag = "JUNCTION_POINTS" -> Ok(<<"/xjd">>)
      [] OTHER -> Panic("internal error: entered unreachable code")

DirectoryExclusionFilter_into_Vec(def) ==
    ForEachPush(DirectoryExclusionFilter_single_variants(def), DirectoryExclusionFilter_token)

DirectoryExclusionFilter_add(self, rhs) ==
    LET junction_pts_self == self.tag = "JUNCTION_POINTS"
        result_path_or_name ==
            CASE self.tag \in {"PathOrName", "_BOTH"} -> self.paths
              [] self.tag = "JUNCTION_POINTS" -> <<>>
        appended ==
            IF rhs.tag \in {"PathOrName", "_BOTH"}
            THEN result_path_or_name \o rhs.paths ELSE result_path_or_name
        junction_pts == junction_pts_self \/ rhs.tag \notin {"PathOrName", "_BOTH"}
    IN  Ok(IF junction_pts THEN DirectoryExclusionFilter_BOTH(appended)
           ELSE DirectoryExclusionFilter_PathOrName(appended))

-----------------------------------------------------------------------------
(* The flag families seen through the MultipleVariant trait *)

Families ==
    { "FileAttributes", "FileProperties", "DirectoryProperties", "FileExclusionFilter",
      "FileAndDirectoryExclusionFilter", "FileExclusionFilterException" }

VARIANTS(f) ==
    CASE f = "FileAttributes" -> FileAttributes_VARIANTS
      [] f = "FileProperties" -> FileProperties_VARIANTS
      [] f = "DirectoryProperties" -> DirectoryProperties_VARIANTS
      [] f = "FileExclusionFilter" -> FileExclusionFilter_VARIANTS
      [] f = "FileAndDirectoryExclusionFilter" -> FileAndDirectoryExclusionFilter_VARIANTS
      [] f = "FileExclusionFilterException" -> FileExclusionFilterException_VARIANTS

\* self + rhs
Add(f, self, rhs) ==
    CASE f = "FileAttributes" -> FileAttributes_add(self, rhs)
      [] f = "FileProperties" -> FileProperties_add(self, rhs)
      [] f = "DirectoryProperties" -> DirectoryProperties_add(self, rhs)
      [] f = "FileExclusionFilter" -> FileExclusionFilter_add(self, rhs)
      [] f = "FileAndDirectoryExclusionFilter" -> FileAndDirectoryExclusionFilter_add(self, rhs)
      [] f = "FileExclusionFilterException" -> FileExclusionFilterException_add(self, rhs)
      [] f = "PostCopyActions" -> PostCopyActions_add(self, rhs)
      [] f = "DirectoryExclusionFilter" -> DirectoryExclusionFilter_add(self, rhs)

\* MultipleVariant::single_variants
single_variants(f, v) ==
    CASE f = "FileAttributes" -> FileAttributes_single_variants(v)
      [] f = "FileProperties" -> FileProperties_single_variants(v)
      [] f = "DirectoryProperties" -> DirectoryProperties_single_variants(v)
      [] f = "FileExclusionFilter" -> FileExclusionFilter_single_variants(v)
      [] f = "FileAndDirectoryExclusionFilter" ->
            FileAndDirectoryExclusionFilter_single_variants(v)
      [] f = "FileExclusionFilterException" -> FileExclusionFilterException_single_variants(v)
      [] f = "PostCopyActions" -> PostCopyActions_single_variants(v)
      [] f = "DirectoryExclusionFilter" -> DirectoryExclusionFilter_single_variants(v)

\* the tokens a value contributes to the command line (Into<OsString> / Into<Vec<OsString>>)
Tokens(f, v) ==
    CASE f = "FileAttributes" -> Ok(<<FileAttributes_into_OsString(v)>>)
      [] f = "FileProperties" -> Ok(<<FileProperties_into_OsString(v)>>)
      [] f = "DirectoryProperties" -> Ok(<<DirectoryProperties_into_OsString(v)>>)
      [] f = "FileExclusionFilter" -> FileExclusionFilter_into_Vec(v)
      [] f = "FileAndDirectoryExclusionFilter" -> FileAndDirectoryExclusionFilter_into_Vec(v)
      [] f = "FileExclusionFilterException" -> FileExclusionFilterException_into_Vec(v)
      [] f = "PostCopyActions" -> Ok(PostCopyActions_into_Vec(v))
      [] f = "DirectoryExclusionFilter" -> DirectoryExclusionFilter_into_Vec(v)

Range(seq) == {seq[k] : k \in DOMAIN seq}

\* the atomic (unit) flags of a family
Atoms(f) == Range(VARIANTS(f))

-----------------------------------------------------------------------------
(* Bounds of the model *)

\* the longest path list a PathOrName value is constructed with
MaxPaths == 2

\* the longest path list a combined filter may carry
MaxCombinedPaths == 4

\* exit statuses the child may report: 0 .. MaxStatus
MaxStatus == 300

PathNames == {"*.tmp", "*.bak"}

PathLists ==
    UNION {[1..n -> PathNames] : n \in 0..MaxPaths}

FileAttributesInputs ==
    Range(FileAttributes_VARIANTS) \cup {FileAttributes_all, FileAttributes_none}

\* the attribute sets a PostCopyActions value is constructed with
PostCopyAttribs ==
    { FileAttributes_none, FileAttributes_all, Atom("READ_ONLY"),
      Multiple(<<TRUE, TRUE, FALSE, FALSE, FALSE, FALSE, FALSE, FALSE>>),
      Multiple(<<FALSE, TRUE, FALSE, TRUE, FALSE, FALSE, FALSE, FALSE>>) }

\* the values a caller builds without `+`: unit variants, all(), none(), and the
\* data-carrying variants of FileExclusionFilter and PostCopyActions
Constructors(f) ==
    CASE f = "FileAttributes" -> FileAttributesInputs
      [] f = "FileProperties" -> Atoms(f) \cup {FileProperties_all, FileProperties_none}
      [] f = "DirectoryProperties" ->
            Atoms(f) \cup {DirectoryProperties_all, DirectoryProperties_none}
      [] f = "FileExclusionFilter" ->
            Atoms(f)
            \cup {Attributes(a) : a \in FileAttributesInputs}
            \cup {PathOrName(p) : p \in PathLists}
      [] f = "PostCopyActions" ->
            {AddAttribsToFiles(a) : a \in PostCopyAttribs}
            \cup {RmvAttribsFromFiles(a) : a \in PostCopyAttribs}
            \cup {PostCopyActions_MULTIPLE(a, r) : a, r \in {FileAttributes_none, FileAttributes_all}}
      [] OTHER -> Atoms(f)

WithinBounds(v) == "paths" \in DOMAIN v => Len(v.paths) <= MaxCombinedPaths

-----------------------------------------------------------------------------
(* The caller: two bindings of one family, combined with `+` *)

Regs == {"x", "y"}

NoCall == [op |-> "none"]

NotStarted == [kind |-> "not_started"]

NoResult == [op |-> "none"]

NoOptions == [type |-> "none"]

NoBuilder == [state |-> "none"]

NoCommand == [op |-> "none"]

Aborted == call.op # "none" /\ ~call.out.ok

\* a left-to-right chain  a1 + a2 + ... + an
RECURSIVE Chain(_, _, _)
Chain(f, acc, rest) ==
    IF rest = <<>> THEN acc
    ELSE Chain(f, Bind(acc, LAMBDA v: Add(f, v, Head(rest))), Tail(rest))

InitCombine ==
    /\ family \in Families
    /\ overflow_checks \in BOOLEAN
    /\ regs \in [Regs -> Constructors(family)]
    /\ src = [r \in Regs |-> {regs[r]}]
    /\ call = NoCall
    /\ child = NotStarted
    /\ result = NoResult
    /\ options = NoOptions
    /\ builder = NoBuilder
    /\ command = NoCommand

\* let d = l + r;   (a panic ends the program)
Combine(l, r, d) ==
    /\ ~Aborted
    /\ LET out == Add(family, regs[l], regs[r])
       IN  /\ out.ok => WithinBounds(out.val)
           /\ call' = [op |-> "add", args |-> <<regs[l], regs[r]>>,
                       src |-> src[l] \cup src[r], out |-> out]
           /\ regs' = IF out.ok THEN [regs EXCEPT ![d] = out.val] ELSE regs
           /\ src' = IF out.ok THEN [src EXCEPT ![d] = src[l] \cup src[r]] ELSE src
    /\ UNCHANGED <<family, overflow_checks, child, result, options, builder, command>>

\* let d = V1 + V2 + ... + VN;  every unit variant, in declaration order
CombineAll(d) ==
    /\ ~Aborted
    /\ LET args == VARIANTS(family)
           out == Chain(family, Ok(Head(args)), Tail(args))
       IN  /\ call' = [op |-> "chain", args |-> args, src |-> Atoms(family), out |-> out]
           /\ regs' = IF out.ok THEN [regs EXCEPT ![d] = out.val] ELSE regs
           /\ src' = IF out.ok THEN [src EXCEPT ![d] = Atoms(family)] ELSE src
    /\ UNCHANGED <<family, overflow_checks, child, result, options, builder, command>>

NextCombine ==
    \/ \E l \in Regs, r \in Regs, d \in Regs : Combine(l, r, d)
    \/ \E d \in Regs : CombineAll(d)

SpecCombine == InitCombine /\ [][NextCombine]_vars

\* the same caller with two PostCopyActions bindings
InitPostCopy ==
    /\ family = "PostCopyActions"
    /\ overflow_checks \in BOOLEAN
    /\ regs \in [Regs -> Constructors(family)]
    /\ src = [r \in Regs |-> {regs[r]}]
    /\ call = NoCall
    /\ child = NotStarted
    /\ result = NoResult
    /\ options = NoOptions
    /\ builder = NoBuilder
    /\ command = NoCommand

NextPostCopy == \E l \in Regs, r \in Regs, d \in Regs : Combine(l, r, d)

SpecPostCopy == InitPostCopy /\ [][NextPostCopy]_vars

-----------------------------------------------------------------------------
(* The caller of execute and of OkExitCode::try_from *)

ChildOutcomes ==
    {SpawnFailed, KilledBySignal} \cup {Exited(c) : c \in 0..MaxStatus}

InitExec ==
    /\ family = "none"
    /\ overflow_checks \in BOOLEAN
    /\ regs = <<>>
    /\ src = <<>>
    /\ call = NoCall
    /\ child = NotStarted
    /\ result = NoResult
    /\ options = NoOptions
    /\ builder = NoBuilder
    /\ command = NoCommand

\* command.execute(): the child runs to its end, whatever that is
Execute(outcome) ==
    /\ result = NoResult
    /\ child' = outcome
    /\ result' = [op |-> "execute", ret |-> RobocopyCommand_execute(outcome)]
    /\ UNCHANGED <<family, overflow_checks, regs, src, call, options, builder, command>>

\* OkExitCode::try_from(n) called directly, as examples/spawn.rs does
TryFrom(n) ==
    /\ result = NoResult
    /\ result' = [op |-> "try_from", n |-> n, ret |-> OkExitCode_try_from(n)]
    /\ UNCHANGED <<family, overflow_checks, regs, src, call, child, options, builder, command>>

\* the caller matches on the returned value and is free to call again;
\* after a panic there is no caller left
Return ==
    /\ result # NoResult
    /\ result.ret.ok
    /\ result' = NoResult
    /\ child' = NotStarted
    /\ UNCHANGED <<family, overflow_checks, regs, src, call, options, builder, command>>

NextExec ==
    \/ \E outcome \in ChildOutcomes : Execute(outcome)
    \/ \E n \in I8_MIN..I8_MAX : TryFrom(n)
    \/ Return

SpecExec == InitExec /\ [][NextExec]_vars

-----------------------------------------------------------------------------
(* Properties of the flag families, checked under SpecCombine *)

\* the latest `+` had two unit variants as operands
AtomPair ==
    /\ call.op = "add"
    /\ call.args[1] \in Atoms(family)
    /\ call.args[2] \in Atoms(family)

\* v is a value of family f: a unit variant or a presence vector of the family's length
IsFamilyValue(f, v) ==
    \/ v \in Atoms(f)
    \/ /\ v.tag = "_MULTIPLE"
       /\ Len(v.flags) = Len(VARIANTS(f))

\* C1: for unit variants a, b of FileProperties or DirectoryProperties, a + b and
\* b + a both decompose (single_variants) to exactly the set {a, b}.
C1_CombineCommutes ==
    (AtomPair /\ family \in {"FileProperties", "DirectoryProperties"}) =>
        LET a == call.args[1]
            b == call.args[2]
            ba == Add(family, b, a)
        IN  /\ call.out.ok
            /\ ba.ok
            /\ Range(single_variants(family, call.out.val)) = {a, b}
            /\ Range(single_variants(family, ba.val)) = {a, b}

\* C2: in every family, a + b of two unit variants returns a value of the family
\* and does not panic.
C2_CombineTotal ==
    AtomPair => (call.out.ok /\ IsFamilyValue(family, call.out.val))

\* C3: for a unit variant a, single_variants(a + a) is the one-element list [a].
C3_CombineIdempotent ==
    (AtomPair /\ call.args[1] = call.args[2]) =>
        (call.out.ok /\ single_variants(family, call.out.val) = <<call.args[1]>>)

\* the letter a unit variant contributes to a /copy:, /dcopy: or attribute token
FlagLetter(f, a) ==
    CASE f = "FileAttributes" ->
            (CASE a.tag = "READ_ONLY" -> "R" [] a.tag = "ARCHIVE" -> "A"
               [] a.tag = "SYSTEM" -> "S" [] a.tag = "HIDDEN" -> "H"
               [] a.tag = "COMPRESSED" -> "C" [] a.tag = "NOT_CONTENT_INDEXED" -> "N"
               [] a.tag = "ENCRYPTED" -> "E" [] a.tag = "TEMPORARY" -> "T")
      [] f = "FileProperties" ->
            (CASE a.tag = "DATA" -> "D" [] a.tag = "ATTRIBUTES" -> "A"
               [] a.tag = "TIME_STAMPS" -> "T" [] a.tag = "NTFS_ACCESS_CONTROL_LIST" -> "S"
               [] a.tag = "OWNER_INFO" -> "O" [] a.tag = "AUDITING_INFO" -> "U")
      [] f = "DirectoryProperties" ->
            (CASE a.tag = "DATA" -> "D" [] a.tag = "ATTRIBUTES" -> "A"
               [] a.tag = "TIME_STAMPS" -> "T")

\* the tokens of the flags in S, in the declaration order of family f
CanonicalTokens(f, S) ==
    LET present == SelectSeq(VARIANTS(f), LAMBDA a: a \in S)
        letters == Concat([k \in 1..Len(present) |-> FlagLetter(f, present[k])])
    IN  CASE f = "FileAttributes" -> Ok(<<letters>>)
          [] f = "FileProperties" -> Ok(<<"/copy:" \o letters>>)
          [] f = "DirectoryProperties" -> Ok(<<"/dcopy:" \o letters>>)
          [] OTHER -> PushAll([k \in 1..Len(present) |-> Tokens(f, present[k])])

\* C4: a value built from unit variants by any order and grouping of `+`
\* serializes to the tokens of the distinct flags combined, in declaration order.
C4_TokensCanonical ==
    (call.op # "none" /\ call.src \subseteq Atoms(family)) =>
        /\ call.out.ok
        /\ Tokens(family, call.out.val) = CanonicalTokens(family, call.src)

\* C5: x + y of two combined (_MULTIPLE) values has every flag of x and every
\* flag of y: its presence vector is the element-wise OR.
C5_MultipleUnion ==
    (/\ call.op = "add"
     /\ call.args[1].tag = "_MULTIPLE"
     /\ call.args[2].tag = "_MULTIPLE") =>
        /\ call.out.ok
        /\ call.out.val.flags =
              [k \in DOMAIN call.args[1].flags |->
                  call.args[1].flags[k] \/ call.args[2].flags[k]]

\* C6: in FileProperties and DirectoryProperties, no value built from unit
\* variants by `+` is a combined value with every presence bit false.
C6_NoEmptyCombination ==
    \A r \in Regs :
        (/\ family \in {"FileProperties", "DirectoryProperties"}
         /\ src[r] \subseteq Atoms(family)) =>
            ~(/\ regs[r].tag = "_MULTIPLE"
              /\ \A k \in DOMAIN regs[r].flags : ~regs[r].flags[k])

\* the value all() of a family that offers it
AllOf(f) ==
    CASE f = "FileAttributes" -> FileAttributes_all
      [] f = "FileProperties" -> FileProperties_all
      [] f = "DirectoryProperties" -> DirectoryProperties_all

\* C7: in FileAttributes, FileProperties and DirectoryProperties, the N unit
\* variants combined left to right in declaration order decompose to N distinct
\* flags, the same list as single_variants(all()).
C7_CombineAllIsAll ==
    (/\ call.op = "chain"
     /\ family \in {"FileAttributes", "FileProperties", "DirectoryProperties"}) =>
        /\ call.out.ok
        /\ LET got == single_variants(family, call.out.val)
           IN  /\ Len(got) = Len(VARIANTS(family))
               /\ Cardinality(Range(got)) = Len(VARIANTS(family))
               /\ got = single_variants(family, AllOf(family))

-----------------------------------------------------------------------------
(* Properties of exit-code classification, checked under SpecExec *)

\* C8: try_from(n) is Ok with the success variant of discriminant n for n in
\* 0..7 and Err with the failure variant of discriminant n for n in 8..16
\* (NO_CHANGE_FATAL_ERROR for 16).
C8_ClassifiesDocumentedCodes ==
    (result.op = "try_from" /\ result.n \in 0..16) =>
        /\ result.ret.ok
        /\ result.n < 8 =>
              /\ result.ret.val.tag = "Ok"
              /\ OkExitCode_discriminant(result.ret.val.code) = result.n
        /\ result.n >= 8 =>
              /\ result.ret.val.tag = "Err"
              /\ result.ret.val.err.tag # "INVALID_EXIT_CODE"
              /\ ErrExitCode_discriminant(result.ret.val.err.tag) = result.n
        /\ result.n = 16 => result.ret.val.err = Atom("NO_CHANGE_FATAL_ERROR")

\* try_from(8) has returned FAIL: the first failure code, just past the boundary
C8_Witness ==
    /\ result.op = "try_from"
    /\ result.n = 8
    /\ result.ret = Ok(ResErr(Atom("FAIL")))

\* C9: for every i8 n outside 0..16, negative n included, try_from(n) returns
\* Err(INVALID_EXIT_CODE(n)) and does not panic.
C9_OutOfRangeIsInvalid ==
    (result.op = "try_from" /\ result.n \notin 0..16) =>
        /\ result.ret.ok
        /\ result.ret.val = ResErr(INVALID_EXIT_CODE(result.n))

\* C10: when the child exits with a status outside 0..16, execute returns
\* Err(Error::ExitCode(INVALID_EXIT_CODE(_))): never Ok, never a documented code.
C10_UnrecognizedStatusIsFailure ==
    (/\ result.op = "execute"
     /\ child.kind = "exit"
     /\ child.code \notin 0..16) =>
        /\ result.ret.ok
        /\ result.ret.val.tag = "Err"
        /\ result.ret.val.err.tag = "ExitCode"
        /\ result.ret.val.err.code.tag = "INVALID_EXIT_CODE"

-----------------------------------------------------------------------------
(* Properties of PostCopyActions, checked under SpecPostCopy *)

\* C14: AddAttribsToFiles(FileAttributes::none()) + RmvAttribsFromFiles(FileAttributes::none()),
\* in either operand order, panics instead of returning a PostCopyActions value
C14_EmptyCombinationFails ==
    ( /\ call.op = "add"
      /\ call.args \in
            { <<AddAttribsToFiles(FileAttributes_none), RmvAttribsFromFiles(FileAttributes_none)>>,
              <<RmvAttribsFromFiles(FileAttributes_none), AddAttribsToFiles(FileAttributes_none)>> } )
    => ~call.out.ok

\* C15: for combined attribute sets A and R, AddAttribsToFiles(A) + RmvAttribsFromFiles(R)
\* decomposes to [AddAttribsToFiles(A), RmvAttribsFromFiles(R)] and serializes to the two
\* tokens /a+:<letters of A> and /a-:<letters of R>
C15_AddPlusRmvKeepsBoth ==
    ( /\ call.op = "add"
      /\ call.args[1].tag = "AddAttribsToFiles"
      /\ call.args[2].tag = "RmvAttribsFromFiles"
      /\ call.args[1].attribs.tag = "_MULTIPLE"
      /\ call.args[2].attribs.tag = "_MULTIPLE" )
    => /\ call.out.ok
       /\ PostCopyActions_single_variants(call.out.val) = <<call.args[1], call.args[2]>>
       /\ PostCopyActions_into_Vec(call.out.val) =
            << "/a+:" \o FileAttributes_into_OsString(call.args[1].attribs),
               "/a-:" \o FileAttributes_into_OsString(call.args[2].attribs) >>

-----------------------------------------------------------------------------
(* performance.rs: PerformanceChoice, PerformanceOptions, RetrySettings *)

Digit(d) ==
    CASE d = 0 -> "0" [] d = 1 -> "1" [] d = 2 -> "2" [] d = 3 -> "3" [] d = 4 -> "4"
      [] d = 5 -> "5" [] d = 6 -> "6" [] d = 7 -> "7" [] d = 8 -> "8" [] d = 9 -> "9"

\* format!("{}", n) of an unsigned integer: its decimal digits
RECURSIVE Display(_)
Display(n) == IF n < 10 THEN Digit(n) ELSE Display(n \div 10) \o Digit(n % 10)

\* Ord::clamp
Clamp(n, min, max) == IF n < min THEN min ELSE IF n > max THEN max ELSE n

Threads(threads) == [tag |-> "Threads", threads |-> threads]

InterPacketGap(gap) == [tag |-> "InterPacketGap", gap |-> gap]

PerformanceChoice_into_OsString_unclamped(pc) ==
    CASE pc.tag = "Threads" ->
            "/mt:" \o Display(IF pc.threads.tag = "Some" THEN pc.threads.val ELSE 8)
      [] pc.tag = "InterPacketGap" -> "/ipg:" \o Display(pc.gap)

PerformanceChoice_into_OsString(pc) ==
    CASE pc.tag = "Threads" ->
            "/mt:" \o Display(IF pc.threads.tag = "Some"
                              THEN Clamp(pc.threads.val, 1, 128) ELSE 8)
      [] pc.tag = "InterPacketGap" -> "/ipg:" \o Display(pc.gap)

PerformanceOptions_into_Vec(po) ==
    (IF po.performance_choice.tag = "Some"
        THEN <<PerformanceChoice_into_OsString(po.performance_choice.val)>> ELSE <<>>)
    \o (IF po.dont_offload THEN <<"/nooffload">> ELSE <<>>)
    \o (IF po.request_network_compression THEN <<"/compress">> ELSE <<>>)
    \o (IF po.copy_rather_than_follow_link THEN <<"/sl">> ELSE <<>>)

RetrySettings_into_Vec_unset_when_empty(rs) ==
    (IF rs.specify_retries_failed_copies.tag = "Some"
          /\ rs.specify_retries_failed_copies.val.tag = "Some"
        THEN <<"/r:" \o Display(rs.specify_retries_failed_copies.val.val)>> ELSE <<>>)
    \o (IF rs.specify_wait_between_retries.tag = "Some"
          /\ rs.specify_wait_between_retries.val.tag = "Some"
        THEN <<"/w:" \o Display(rs.specify_wait_between_retries.val.val)>> ELSE <<>>)
    \o (IF rs.save_specifications THEN <<"/reg">> ELSE <<>>)
    \o (IF rs.await_share_names_def THEN <<"/tbd">> ELSE <<>>)

RetrySettings_into_Vec(rs) ==
    (IF rs.specify_retries_failed_copies.tag = "Some"
        THEN LET specified == rs.specify_retries_failed_copies.val
             IN  <<IF specified.tag = "Some" THEN "/r:" \o Display(specified.val) ELSE "/r:">>
        ELSE <<>>)
    \o (IF rs.specify_wait_between_retries.tag = "Some"
        THEN LET specified == rs.specify_wait_between_retries.val
             IN  <<IF specified.tag = "Some" THEN "/w:" \o Display(specified.val) ELSE "/w:">>
        ELSE <<>>)
    \o (IF rs.save_specifications THEN <<"/reg">> ELSE <<>>)
    \o (IF rs.await_share_names_def THEN <<"/tbd">> ELSE <<>>)

-----------------------------------------------------------------------------
(* The caller of the performance serializations *)

\* the largest inter-packet gap
MaxGap == 11

\* the largest retry count and wait time
MaxCount == 10

OptionOf(S) == {None} \cup {Some(v) : v \in S}

PerformanceChoices ==
    {Threads(t) : t \in OptionOf(0..U8_MAX)} \cup {InterPacketGap(g) : g \in 0..MaxGap}

RetrySettingsValues ==
    [ specify_retries_failed_copies : OptionOf(OptionOf(0..MaxCount)),
      specify_wait_between_retries : OptionOf(OptionOf(0..MaxCount)),
      save_specifications : BOOLEAN,
      await_share_names_def : BOOLEAN ]

InitOptions ==
    /\ family = "none"
    /\ overflow_checks \in BOOLEAN
    /\ regs = <<>>
    /\ src = <<>>
    /\ call = NoCall
    /\ child = NotStarted
    /\ result = NoResult
    /\ options \in {[type |-> "PerformanceChoice", value |-> pc] : pc \in PerformanceChoices}
                   \cup {[type |-> "RetrySettings", value |-> rs] : rs \in RetrySettingsValues}
    /\ builder = NoBuilder
    /\ command = NoCommand

\* let token: OsString = choice.into();
ChoiceIntoOsString ==
    /\ result = NoResult
    /\ options.type = "PerformanceChoice"
    /\ result' = [op |-> "into_OsString",
                  ret |-> Ok(PerformanceChoice_into_OsString(options.value))]
    /\ UNCHANGED <<family, overflow_checks, regs, src, call, child, options, builder, command>>

\* let tokens: Vec<OsString> = retry_settings.into();
RetryIntoVec ==
    /\ result = NoResult
    /\ options.type = "RetrySettings"
    /\ result' = [op |-> "into_Vec", ret |-> Ok(RetrySettings_into_Vec(options.value))]
    /\ UNCHANGED <<family, overflow_checks, regs, src, call, child, options, builder, command>>

NextOptions == ChoiceIntoOsString \/ RetryIntoVec

SpecOptions == InitOptions /\ [][NextOptions]_vars

-----------------------------------------------------------------------------
(* Properties of the performance serializations, checked under SpecOptions *)

\* C16: Threads(None) serializes to /mt:8 and Threads(Some(n)) to /mt:min(max(n,1),128) for
\* every n in 0..255 (255 gives /mt:128, 0 gives /mt:1); no value is rejected
C16_ThreadsClamped ==
    (result.op = "into_OsString" /\ options.value.tag = "Threads") =>
        LET t == options.value.threads
            n == IF t.val < 1 THEN 1 ELSE IF t.val > 128 THEN 128 ELSE t.val
        IN  /\ result.ret.ok
            /\ t.tag = "None" => result.ret.val = "/mt:8"
            /\ t.tag = "Some" => result.ret.val = "/mt:" \o ToString(n)
            /\ t = Some(255) => result.ret.val = "/mt:128"
            /\ t = Some(0) => result.ret.val = "/mt:1"

C16_Witness ==
    /\ options.value = Threads(Some(255))
    /\ result.op = "into_OsString"
    /\ result.ret = Ok("/mt:128")

\* the token a retry field contributes, by its three cases
RetryFieldTokens(name, field) ==
    IF field.tag = "None" THEN <<>>
    ELSE IF field.val.tag = "None" THEN <<name>>
    ELSE <<name \o ToString(field.val.val)>>

RetryTokenSet(name) == {name} \cup {name \o ToString(n) : n \in 0..MaxCount}

\* C17: in the tokens of a RetrySettings value the /r token is absent for None, is "/r:" for
\* Some(None) and "/r:n" for Some(Some(n)); likewise /w for the wait field; neither field
\* affects the other's token
C17_RetryThreeOutcomes ==
    (result.op = "into_Vec") =>
        /\ result.ret.ok
        /\ SelectSeq(result.ret.val, LAMBDA t: t \in RetryTokenSet("/r:"))
             = RetryFieldTokens("/r:", options.value.specify_retries_failed_copies)
        /\ SelectSeq(result.ret.val, LAMBDA t: t \in RetryTokenSet("/w:"))
             = RetryFieldTokens("/w:", options.value.specify_wait_between_retries)

C17_Witness ==
    /\ result.op = "into_Vec"
    /\ options.value.specify_retries_failed_copies = Some(None)
    /\ options.value.specify_wait_between_retries = Some(Some(3))
    /\ result.ret = Ok(<<"/r:", "/w:3">>)

-----------------------------------------------------------------------------
(* Properties of execute when the child yields no exit status, checked under SpecExec *)

\* C18: when the child ends without a numeric exit status, execute returns no value at all
\* (no success code, no classified exit-code failure) and ends in the panic labelled
\* "Process terminated by signal"; no other outcome of the child ends that way
C18_SignalIsLabelledFatal ==
    (result.op = "execute") =>
        /\ child = KilledBySignal =>
              /\ ~result.ret.ok
              /\ result.ret.msg = "Process terminated by signal"
        /\ child # KilledBySignal => result.ret # Panic("Process terminated by signal")

C18_Witness ==
    /\ result.op = "execute"
    /\ child = KilledBySignal
    /\ result.ret = Panic("Process terminated by signal")

\* C19: when the child cannot be started, execute returns Err(Error::IoError): not Ok, not
\* Error::ExitCode, and the value is returned by the one step that saw the spawn fail
C19_SpawnFailureIsIoError ==
    (result.op = "execute" /\ child = SpawnFailed) =>
        /\ result.ret.ok
        /\ result.ret.val.tag = "Err"
        /\ result.ret.val.err = Error_IoError
        /\ result.ret.val.err.tag # "ExitCode"

C19_Witness ==
    /\ result.op = "execute"
    /\ child = SpawnFailed
    /\ result.ret = Ok(ResErr(Error_IoError))

-----------------------------------------------------------------------------
(* CopyMode, Move, FilesystemOptions (lib.rs) *)

CopyMode_into_OsString(cm) ==
    CASE cm.tag = "RESTARTABLE_MODE" -> "/z"
      [] cm.tag = "BACKUP_MODE" -> "/b"
      [] cm.tag = "RESTARTABLE_MODE_BACKUP_MODE_FALLBACK" -> "/zb"

Move_into_OsString(mv) ==
    CASE mv.tag = "FILES" -> "/mov"
      [] mv.tag = "FILES_AND_DIRS" -> "/move"

FilesystemOptions_into_Vec(fso) ==
    CASE fso.tag = "FAT_FILE_NAMES" -> <<"/fat">>
      [] fso.tag = "ASSUME_FAT_FILE_TIMES" -> <<"/fft">>
      [] fso.tag = "DISABLE_LONG_PATHS" -> <<"/256">>
      [] fso.tag = "_MULTIPLE" -> ZipFilter(<<"/fat", "/fft", "/256">>, fso.flags)

-----------------------------------------------------------------------------
(* Filter (filter.rs) *)

\* if flag { res.push(token) }
PushIf(flag, token) == IF flag THEN <<token>> ELSE <<>>

Filter_into_Vec(filter) ==
    PushAll(<<
        Ok(PushIf(filter.handle_archive_and_reset, "/m")),
        Ok(IF filter.include_only_files_with_any_of_these_attribs.tag = "Some"
           THEN <<"/ia:" \o FileAttributes_into_OsString(
                                filter.include_only_files_with_any_of_these_attribs.val)>>
           ELSE <<>>),
        IF filter.file_exclusion_filter.tag = "Some"
           THEN FileExclusionFilter_into_Vec(filter.file_exclusion_filter.val) ELSE Ok(<<>>),
        IF filter.directory_exclusion_filter.tag = "Some"
           THEN DirectoryExclusionFilter_into_Vec(filter.directory_exclusion_filter.val)
           ELSE Ok(<<>>),
        IF filter.file_and_directory_exclusion_filter.tag = "Some"
           THEN FileAndDirectoryExclusionFilter_into_Vec(
                    filter.file_and_directory_exclusion_filter.val)
           ELSE Ok(<<>>),
        IF filter.file_exclusion_filter_exceptions.tag = "Some"
           THEN FileExclusionFilterException_into_Vec(filter.file_exclusion_filter_exceptions.val)
           ELSE Ok(<<>>),
        Ok(IF filter.max_size.tag = "Some"
           THEN <<"/max:" \o Display(filter.max_size.val)>> ELSE <<>>),
        Ok(IF filter.min_size.tag = "Some"
           THEN <<"/min:" \o Display(filter.min_size.val)>> ELSE <<>>),
        Ok(IF filter.max_age.tag = "Some" THEN <<"/maxage:" \o filter.max_age.val>> ELSE <<>>),
        Ok(IF filter.min_age.tag = "Some" THEN <<"/minage:" \o filter.min_age.val>> ELSE <<>>),
        Ok(IF filter.max_last_access_date.tag = "Some"
           THEN <<"/maxlad:" \o filter.max_last_access_date.val>> ELSE <<>>),
        Ok(IF filter.min_last_access_date.tag = "Some"
           THEN <<"/minlad:" \o filter.min_last_access_date.val>> ELSE <<>>) >>)

\* #[derive(Default)] on Filter
Filter_default ==
    [ handle_archive_and_reset |-> FALSE,
      include_only_files_with_any_of_these_attribs |-> None,
      file_exclusion_filter |-> None,
      directory_exclusion_filter |-> None,
      file_and_directory_exclusion_filter |-> None,
      file_exclusion_filter_exceptions |-> None,
      max_size |-> None,
      min_size |-> None,
      max_age |-> None,
      min_age |-> None,
      max_last_access_date |-> None,
      min_last_access_date |-> None ]

-----------------------------------------------------------------------------
(* LogFileSettings and LoggingOptions (logging.rs) *)

\* a &Path: the operating system's string, and whether it is valid UTF-8
Path(os, utf8) == [os |-> os, utf8 |-> utf8]

\* Path::to_str
Path_to_str(path) == IF path.utf8 THEN Some(path.os) ELSE None

LogFileSettings_into_OsString(ls) ==
    Bind(Unwrap(Path_to_str(ls.log)), LAMBDA str:
        Ok("/" \o (IF ls.unicode THEN "uni" ELSE "") \o "log"
               \o (IF ls.append THEN "+" ELSE "") \o ":" \o str))

LoggingOptions_into_Vec(lo) ==
    PushAll(<<
        Ok(PushIf(lo.only_log, "/l")),
        Ok(PushIf(lo.report_extra, "/x")),
        Ok(PushIf(lo.verbose, "/v")),
        Ok(PushIf(lo.time_stamps, "/ts")),
        Ok(PushIf(lo.full_path_names, "/fp")),
        Ok(PushIf(lo.sizes_bytes, "/bytes")),
        Ok(PushIf(lo.dont_log_size, "/ns")),
        Ok(PushIf(lo.dont_log_class, "/nc")),
        Ok(PushIf(lo.dont_log_file_names, "/nfl")),
        Ok(PushIf(lo.dont_log_dir_names, "/ndl")),
        Ok(PushIf(lo.no_progress_display, "/np")),
        Ok(PushIf(lo.show_estimated_time_of_arrival, "/eta")),
        IF lo.log_file.tag = "Some"
           THEN Bind(LogFileSettings_into_OsString(lo.log_file.val), LAMBDA t: Ok(<<t>>))
           ELSE Ok(<<>>),
        Ok(PushIf(lo.combination_log, "/tee")),
        Ok(PushIf(lo.dont_log_header, "/njh")),
        Ok(PushIf(lo.dont_log_summary, "/njs")),
        Ok(PushIf(lo.unicode, "/unicode")) >>)

\* #[derive(Default)] on LoggingOptions
LoggingOptions_default ==
    [ only_log |-> FALSE, report_extra |-> FALSE, verbose |-> FALSE, time_stamps |-> FALSE,
      full_path_names |-> FALSE, sizes_bytes |-> FALSE, dont_log_size |-> FALSE,
      dont_log_class |-> FALSE, dont_log_file_names |-> FALSE, dont_log_dir_names |-> FALSE,
      no_progress_display |-> FALSE, show_estimated_time_of_arrival |-> FALSE,
      log_file |-> None, combination_log |-> FALSE, dont_log_header |-> FALSE,
      dont_log_summary |-> FALSE, unicode |-> FALSE ]

-----------------------------------------------------------------------------
(* RobocopyCommandBuilder (lib.rs) *)

RobocopyCommandBuilder_default ==
    [ source |-> Path(".", TRUE),
      destination |-> Path(".", TRUE),
      files |-> <<>>,
      copy_mode |-> None,
      unbuffered |-> FALSE,
      empty_dir_copy |-> FALSE,
      remove_files_and_dirs_not_in_src |-> FALSE,
      only_copy_top_n_levels |-> None,
      structure_and_size_zero_files_only |-> FALSE,
      copy_file_properties |-> None,
      copy_dir_properties |-> None,
      filter |-> None,
      filesystem_options |-> None,
      performance_options |-> None,
      retry_settings |-> None,
      logging |-> None,
      mv |-> None,
      post_copy_actions |-> None,
      overwrite_destination_dir_sec_settings_when_mirror |-> FALSE ]

RecursionBlock_purge_in_mirror(self) ==
    IF self.empty_dir_copy /\ self.remove_files_and_dirs_not_in_src
          /\ self.overwrite_destination_dir_sec_settings_when_mirror
    THEN <<"/mir", "/e", "/purge">>
    ELSE (IF self.empty_dir_copy THEN <<"/e">> ELSE <<"/s">>)
         \o (IF self.remove_files_and_dirs_not_in_src THEN <<"/purge">> ELSE <<>>)

RecursionBlock_purge_first(self) ==
    IF self.empty_dir_copy /\ self.remove_files_and_dirs_not_in_src
          /\ self.overwrite_destination_dir_sec_settings_when_mirror
    THEN <<"/mir", "/e">>
    ELSE (IF self.remove_files_and_dirs_not_in_src THEN <<"/purge">> ELSE <<>>)
         \o (IF self.empty_dir_copy THEN <<"/e">> ELSE <<"/s">>)

RecursionBlock_mir_alone(self) ==
    IF self.empty_dir_copy /\ self.remove_files_and_dirs_not_in_src
          /\ self.overwrite_destination_dir_sec_settings_when_mirror
    THEN <<"/mir">>
    ELSE (IF self.empty_dir_copy THEN <<"/e">> ELSE <<"/s">>)
         \o (IF self.remove_files_and_dirs_not_in_src THEN <<"/purge">> ELSE <<>>)

RecursionBlock_mirror_without_purge(self) ==
    IF self.empty_dir_copy /\ self.overwrite_destination_dir_sec_settings_when_mirror
    THEN <<"/mir", "/e">>
    ELSE (IF self.empty_dir_copy THEN <<"/e">> ELSE <<"/s">>)
         \o (IF self.remove_files_and_dirs_not_in_src THEN <<"/purge">> ELSE <<>>)

\* the /mir /e /s /purge block of build
RecursionBlock(self) ==
    IF self.empty_dir_copy /\ self.remove_files_and_dirs_not_in_src
          /\ self.overwrite_destination_dir_sec_settings_when_mirror
    THEN <<"/mir", "/e">>
    ELSE (IF self.empty_dir_copy THEN <<"/e">> ELSE <<"/s">>)
         \o (IF self.remove_files_and_dirs_not_in_src THEN <<"/purge">> ELSE <<>>)

\* build, first part: paths, files, copy mode, /j, recursion block, /lev, /create, /copy, /dcopy
BuildCopyOptions(self) ==
    << Ok(<<self.source.os, self.destination.os>>),
       Ok(self.files),
       Ok(IF self.copy_mode.tag = "Some"
          THEN <<CopyMode_into_OsString(self.copy_mode.val)>> ELSE <<>>),
       Ok(PushIf(self.unbuffered, "/j")),
       Ok(RecursionBlock(self)),
       Ok(IF self.only_copy_top_n_levels.tag = "Some"
          THEN <<"/lev:" \o Display(self.only_copy_top_n_levels.val)>> ELSE <<>>),
       Ok(PushIf(self.structure_and_size_zero_files_only, "/create")),
       Ok(IF self.copy_file_properties.tag = "Some"
          THEN <<FileProperties_into_OsString(self.copy_file_properties.val)>> ELSE <<>>),
       Ok(IF self.copy_dir_properties.tag = "Some"
          THEN <<DirectoryProperties_into_OsString(self.copy_dir_properties.val)>> ELSE <<>>) >>

\* build, second part: filter, filesystem options, performance options, retry settings
BuildSelectionOptions(self) ==
    << IF self.filter.tag = "Some" THEN Filter_into_Vec(self.filter.val) ELSE Ok(<<>>),
       Ok(IF self.filesystem_options.tag = "Some"
          THEN FilesystemOptions_into_Vec(self.filesystem_options.val) ELSE <<>>),
       Ok(IF self.performance_options.tag = "Some"
          THEN PerformanceOptions_into_Vec(self.performance_options.val) ELSE <<>>),
       Ok(IF self.retry_settings.tag = "Some"
          THEN RetrySettings_into_Vec(self.retry_settings.val) ELSE <<>>) >>

BuildFinalOptions_move_before_logging(self) ==
    << Ok(IF self.mv.tag = "Some" THEN <<Move_into_OsString(self.mv.val)>> ELSE <<>>),
       IF self.logging.tag = "Some" THEN LoggingOptions_into_Vec(self.logging.val) ELSE Ok(<<>>),
       Ok(IF self.post_copy_actions.tag = "Some"
          THEN PostCopyActions_into_Vec(self.post_copy_actions.val) ELSE <<>>) >>

\* build, last part: logging, move, post-copy actions
BuildFinalOptions(self) ==
    << IF self.logging.tag = "Some" THEN LoggingOptions_into_Vec(self.logging.val) ELSE Ok(<<>>),
       Ok(IF self.mv.tag = "Some" THEN <<Move_into_OsString(self.mv.val)>> ELSE <<>>),
       Ok(IF self.post_copy_actions.tag = "Some"
          THEN PostCopyActions_into_Vec(self.post_copy_actions.val) ELSE <<>>) >>

\* command.arg(..) for each token of each part in turn; a part whose conversion panics
\* ends build with the arguments pushed before it
RECURSIVE PushStages(_, _)
PushStages(args, stages) ==
    IF stages = <<>> THEN [args |-> args, ret |-> Ok("RobocopyCommand")]
    ELSE IF Head(stages).ok THEN PushStages(args \o Head(stages).val, Tail(stages))
    ELSE [args |-> args, ret |-> Head(stages)]

RobocopyCommandBuilder_build(self) ==
    PushStages(<<>>, BuildCopyOptions(self) \o BuildSelectionOptions(self)
                     \o BuildFinalOptions(self))

-----------------------------------------------------------------------------
(* The caller of build: a default builder, field assignments, then build() *)

\* the deepest /lev limit assigned
MaxLevels == 1

\* how many fields besides the three recursion flags are given a non-default value
MaxSetFields == 3

RecursionFlags ==
    { "empty_dir_copy", "remove_files_and_dirs_not_in_src",
      "overwrite_destination_dir_sec_settings_when_mirror" }

FullFilter ==
    [ handle_archive_and_reset |-> TRUE,
      include_only_files_with_any_of_these_attribs |-> Some(FileAttributes_all),
      file_exclusion_filter |-> Some(PathOrName(<<"*.tmp", "*.bak">>)),
      directory_exclusion_filter |-> Some(DirectoryExclusionFilter_BOTH(<<"obj">>)),
      file_and_directory_exclusion_filter |-> Some(Atom("EXTRA")),
      file_exclusion_filter_exceptions |-> Some(Atom("MODIFIED")),
      max_size |-> Some(10),
      min_size |-> Some(0),
      max_age |-> Some("7"),
      min_age |-> Some("1"),
      max_last_access_date |-> Some("20240101"),
      min_last_access_date |-> Some("30") ]

FullLogging ==
    [ f \in DOMAIN LoggingOptions_default |->
        IF f = "log_file"
        THEN Some([log |-> Path("copy.log", TRUE), unicode |-> TRUE, append |-> TRUE])
        ELSE TRUE ]

\* a log file whose path is not valid Unicode (an unpaired surrogate on Windows)
BadPathLogging ==
    [ LoggingOptions_default EXCEPT
        !.log_file = Some([log |-> Path("copy_?.log", FALSE), unicode |-> FALSE,
                           append |-> FALSE]) ]

\* the non-default values assigned to each field
FieldValues(f) ==
    CASE f = "source" -> {Path("src_dir", TRUE)}
      [] f = "destination" -> {Path("dst_?", FALSE)}
      [] f = "files" -> {<<"*.txt">>, <<"*.doc", "*.txt">>}
      [] f = "copy_mode" ->
            {Some(Atom(m)) : m \in {"RESTARTABLE_MODE", "BACKUP_MODE",
                                    "RESTARTABLE_MODE_BACKUP_MODE_FALLBACK"}}
      [] f = "only_copy_top_n_levels" -> {Some(n) : n \in 0..MaxLevels}
      [] f = "copy_file_properties" -> {Some(FileProperties_all), Some(FileProperties_none)}
      [] f = "copy_dir_properties" ->
            {Some(DirectoryProperties_all), Some(DirectoryProperties_none)}
      [] f = "filter" -> {Some(Filter_default), Some(FullFilter)}
      [] f = "filesystem_options" ->
            {Some(Atom("ASSUME_FAT_FILE_TIMES")), Some(Multiple(<<TRUE, TRUE, TRUE>>))}
      [] f = "performance_options" ->
            {Some([performance_choice |-> Some(Threads(Some(0))), dont_offload |-> TRUE,
                   request_network_compression |-> TRUE,
                   copy_rather_than_follow_link |-> TRUE])}
      [] f = "retry_settings" ->
            {Some([specify_retries_failed_copies |-> Some(None),
                   specify_wait_between_retries |-> Some(Some(3)),
                   save_specifications |-> TRUE, await_share_names_def |-> TRUE])}
      [] f = "logging" -> {Some(FullLogging), Some(BadPathLogging)}
      [] f = "mv" -> {Some(Atom("FILES")), Some(Atom("FILES_AND_DIRS"))}
      [] f = "post_copy_actions" ->
            {Some(AddAttribsToFiles(Multiple(<<TRUE, TRUE, FALSE, FALSE,
                                               FALSE, FALSE, FALSE, FALSE>>))),
             Some(PostCopyActions_MULTIPLE(FileAttributes_all, FileAttributes_none))}
      [] OTHER -> {TRUE}

\* the fields, other than the recursion flags, that differ from the default builder
SetFields(b) ==
    {f \in DOMAIN b \ RecursionFlags : b[f] # RobocopyCommandBuilder_default[f]}

InitBuild ==
    /\ family = "none"
    /\ overflow_checks \in BOOLEAN
    /\ regs = <<>>
    /\ src = <<>>
    /\ call = NoCall
    /\ child = NotStarted
    /\ result = NoResult
    /\ options = NoOptions
    /\ builder = RobocopyCommandBuilder_default
    /\ command = NoCommand

\* builder.f = v;
SetField(f, v) ==
    /\ command = NoCommand
    /\ builder' = [builder EXCEPT ![f] = v]
    /\ Cardinality(SetFields(builder')) <= MaxSetFields
    /\ UNCHANGED <<family, overflow_checks, regs, src, call, child, result, options, command>>

\* let command = builder.build();
Build ==
    /\ command = NoCommand
    /\ command' = [op |-> "build"] @@ RobocopyCommandBuilder_build(builder)
    /\ UNCHANGED <<family, overflow_checks, regs, src, call, child, result, options, builder>>

NextBuild ==
    \/ \E f \in DOMAIN RobocopyCommandBuilder_default : \E v \in FieldValues(f) : SetField(f, v)
    \/ Build

SpecBuild == InitBuild /\ [][NextBuild]_vars

-----------------------------------------------------------------------------
(* Properties of build, checked under SpecBuild *)

Mirror(b) ==
    /\ b.empty_dir_copy
    /\ b.remove_files_and_dirs_not_in_src
    /\ b.overwrite_destination_dir_sec_settings_when_mirror

\* C11: with empty_dir_copy, remove_files_and_dirs_not_in_src and
\* overwrite_destination_dir_sec_settings_when_mirror all true, the arguments build emits
\* contain /mir immediately followed by /e, and contain neither /purge nor /s
C11_MirrorBlock ==
    (command.op = "build" /\ Mirror(builder)) =>
        /\ \E i \in 1..(Len(command.args) - 1) :
              command.args[i] = "/mir" /\ command.args[i + 1] = "/e"
        /\ \A i \in DOMAIN command.args : command.args[i] \notin {"/purge", "/s"}

C11_Witness ==
    /\ command.op = "build"
    /\ Mirror(builder)
    /\ builder.files # <<>>
    /\ builder.filter # None
    /\ \E i \in DOMAIN command.args : command.args[i] = "/mir"

\* C12: with empty_dir_copy false and remove_files_and_dirs_not_in_src true, build emits /s
\* and /purge, every /s before every /purge, and emits neither /mir nor /e
C12_PurgeBlock ==
    (command.op = "build" /\ ~builder.empty_dir_copy
                          /\ builder.remove_files_and_dirs_not_in_src) =>
        /\ \E i \in DOMAIN command.args : command.args[i] = "/s"
        /\ \E j \in DOMAIN command.args : command.args[j] = "/purge"
        /\ \A i, j \in DOMAIN command.args :
              (command.args[i] = "/s" /\ command.args[j] = "/purge") => i < j
        /\ \A i \in DOMAIN command.args : command.args[i] \notin {"/mir", "/e"}

C12_Witness ==
    /\ command.op = "build"
    /\ ~builder.empty_dir_copy
    /\ builder.remove_files_and_dirs_not_in_src
    /\ builder.overwrite_destination_dir_sec_settings_when_mirror
    /\ builder.logging # None
    /\ \E i \in DOMAIN command.args : command.args[i] = "/purge"

\* the place of an option token in the documented order of groups (0: not an option token)
GroupOf(tok) ==
    CASE tok \in {"/z", "/b", "/zb"} -> 1
      [] tok = "/j" -> 2
      [] tok \in {"/mir", "/e", "/s", "/purge"} -> 3
      [] tok \in {"/lev:" \o ToString(n) : n \in 0..MaxLevels} -> 4
      [] tok = "/create" -> 5
      [] tok \in {"/copy:", "/copy:DATSOU"} -> 6
      [] tok \in {"/dcopy:", "/dcopy:DAT"} -> 7
      [] tok \in {"/m", "/ia:RASHCNET", "/xf", "*.tmp", "*.bak", "/xjd", "/xd", "obj", "/xx",
                  "/im", "/max:10", "/min:0", "/maxage:7", "/minage:1", "/maxlad:20240101",
                  "/minlad:30"} -> 8
      [] tok \in {"/fat", "/fft", "/256"} -> 9
      [] tok \in {"/mt:1", "/nooffload", "/compress", "/sl"} -> 10
      [] tok \in {"/r:", "/w:3", "/reg", "/tbd"} -> 11
      [] tok \in {"/l", "/x", "/v", "/ts", "/fp", "/bytes", "/ns", "/nc", "/nfl", "/ndl", "/np",
                  "/eta", "/unilog+:copy.log", "/tee", "/njh", "/njs", "/unicode"} -> 12
      [] tok \in {"/mov", "/move"} -> 13
      [] tok \in {"/a+:RA", "/a+:RASHCNET", "/a-:"} -> 14
      [] OTHER -> 0

\* C13: the arguments build emits are the source, the destination and the file patterns in
\* the given order, followed by option tokens whose groups never go backwards in the order
\* copy mode, /j, recursion block, /lev, /create, /copy, /dcopy, filter, filesystem,
\* performance, retry, logging, move, post-copy actions
C13_GroupOrder ==
    (command.op = "build") =>
        LET args == command.args
            first == 3 + Len(builder.files)
        IN  /\ Len(args) >= first - 1
            /\ args[1] = builder.source.os
            /\ args[2] = builder.destination.os
            /\ SubSeq(args, 3, first - 1) = builder.files
            /\ \A i \in first..Len(args) : GroupOf(args[i]) # 0
            /\ \A i \in first..(Len(args) - 1) : GroupOf(args[i]) <= GroupOf(args[i + 1])

C13_Witness ==
    /\ command.op = "build"
    /\ command.ret.ok
    /\ builder.filter = Some(FullFilter)
    /\ builder.logging = Some(FullLogging)
    /\ builder.mv # None
    /\ \E i \in DOMAIN command.args : GroupOf(command.args[i]) = 13

\* C20: build returns a command for every builder; it never aborts
C20_BuildTotal ==
    (command.op = "build") => command.ret.ok

-----------------------------------------------------------------------------
(* The caller of `+` on the exclusion filters: a1 + a2 + ... + an *)

\* the longest expression a1 + ... + an
MaxOperands == 4

ChainFamilies == {"FileExclusionFilter", "DirectoryExclusionFilter"}

\* the values written as operands
Operands(f) ==
    CASE f = "FileExclusionFilter" ->
            Atoms(f)
            \cup {Attributes(a) :
                    a \in { Atom("READ_ONLY"),
                            Multiple(<<TRUE, TRUE, FALSE, FALSE, FALSE, FALSE, FALSE, FALSE>>),
                            Multiple(<<FALSE, TRUE, FALSE, TRUE, FALSE, FALSE, FALSE, FALSE>>) }}
            \cup {PathOrName(<<"*.tmp">>), PathOrName(<<"*.bak", "*.tmp">>)}
      [] f = "DirectoryExclusionFilter" ->
            { Atom("JUNCTION_POINTS"),
              DirectoryExclusionFilter_PathOrName(<<"obj">>),
              DirectoryExclusionFilter_PathOrName(<<"bin", "obj">>) }

OperandSeqs(f) == UNION {[1..n -> Operands(f)] : n \in 1..MaxOperands}

\* regs holds the operands a1 .. an in the order they are written
InitChain ==
    /\ family \in ChainFamilies
    /\ overflow_checks \in BOOLEAN
    /\ regs \in OperandSeqs(family)
    /\ src = [k \in DOMAIN regs |-> {regs[k]}]
    /\ call = NoCall
    /\ child = NotStarted
    /\ result = NoResult
    /\ options = NoOptions
    /\ builder = NoBuilder
    /\ command = NoCommand

\* let v = a1 + a2 + ... + an;
EvalChain ==
    /\ call = NoCall
    /\ call' = [op |-> "chain", args |-> regs, src |-> Range(regs),
                out |-> Chain(family, Ok(Head(regs)), Tail(regs))]
    /\ UNCHANGED <<family, overflow_checks, regs, src, child, result, options, builder, command>>

\* let v = (a1 + ... + ak) + (a(k+1) + ... + an);  both operands have been evaluated
EvalGrouped(k) ==
    /\ call = NoCall
    /\ k < Len(regs)
    /\ LET l == SubSeq(regs, 1, k)
           r == SubSeq(regs, k + 1, Len(regs))
           left == Chain(family, Ok(Head(l)), Tail(l))
           right == Chain(family, Ok(Head(r)), Tail(r))
       IN  /\ left.ok
           /\ right.ok
           /\ call' = [op |-> "add", args |-> <<left.val, right.val>>, src |-> Range(regs),
                       out |-> Add(family, left.val, right.val)]
    /\ UNCHANGED <<family, overflow_checks, regs, src, child, result, options, builder, command>>

NextChain ==
    \/ EvalChain
    \/ \E k \in 1..(MaxOperands - 1) : EvalGrouped(k)

SpecChain == InitChain /\ [][NextChain]_vars

-----------------------------------------------------------------------------
(* Properties of the exclusion filters, checked under SpecChain *)

\* the path list a filter value carries
PathsOf(v) == IF "paths" \in DOMAIN v THEN v.paths ELSE <<>>

\* the operands are distinct: some boolean flags, one Attributes value, one PathOrName value
FlagsAttributesPaths ==
    /\ family = "FileExclusionFilter"
    /\ call.op \in {"chain", "add"}
    /\ Cardinality(call.src) = Len(regs)
    /\ Cardinality({o \in call.src : o.tag = "Attributes"}) = 1
    /\ Cardinality({o \in call.src : o.tag = "PathOrName"}) = 1

\* C21: a FileExclusionFilter combined from a subset of CHANGED, OLDER, NEWER, JUNCTION_POINTS,
\* one Attributes value and one non-empty PathOrName value serializes to the present flags in
\* the order /xc, /xo, /xn, /xjf, then /xa:<letters>, then /xf and the paths
C21_FilterTokenOrder ==
    FlagsAttributesPaths =>
        LET present == {o.tag : o \in call.src}
            a == CHOOSE o \in call.src : o.tag = "Attributes"
            p == CHOOSE o \in call.src : o.tag = "PathOrName"
        IN  /\ call.out.ok
            /\ FileExclusionFilter_into_Vec(call.out.val) =
                 Ok( (IF "CHANGED" \in present THEN <<"/xc">> ELSE <<>>)
                     \o (IF "OLDER" \in present THEN <<"/xo">> ELSE <<>>)
                     \o (IF "NEWER" \in present THEN <<"/xn">> ELSE <<>>)
                     \o (IF "JUNCTION_POINTS" \in present THEN <<"/xjf">> ELSE <<>>)
                     \o <<"/xa:" \o FileAttributes_into_OsString(a.attribs)>>
                     \o <<"/xf">> \o p.paths )

\* C22: in FileExclusionFilter and DirectoryExclusionFilter, a value carrying path list p
\* combined with a value carrying path list q is a value whose path list is p followed by q
C22_PathsConcatenate ==
    ( /\ call.op = "add"
      /\ PathsOf(call.args[1]) # <<>>
      /\ PathsOf(call.args[2]) # <<>> )
    => /\ call.out.ok
       /\ PathsOf(call.out.val) = PathsOf(call.args[1]) \o PathsOf(call.args[2])

\* the attribute set a FileExclusionFilter value carries, if any
CarriedAttribs(v) ==
    CASE v.tag = "Attributes" -> Some(v.attribs)
      [] v.tag = "_MULTIPLE" -> v.attribs
      [] OTHER -> None

\* the attributes of a FileAttributes value, as a set of variant names
AttribSet(fa) ==
    IF fa.tag = "_MULTIPLE"
    THEN {FileAttributes_VARIANTS[k].tag : k \in {i \in DOMAIN fa.flags : fa.flags[i]}}
    ELSE {fa.tag}

\* C23: two FileExclusionFilter values carrying attribute sets A and B combine to a value
\* carrying exactly the union of A and B
C23_AttribsUnion ==
    ( /\ family = "FileExclusionFilter"
      /\ call.op = "add"
      /\ CarriedAttribs(call.args[1]).tag = "Some"
      /\ CarriedAttribs(call.args[2]).tag = "Some" )
    => /\ call.out.ok
       /\ CarriedAttribs(call.out.val).tag = "Some"
       /\ AttribSet(CarriedAttribs(call.out.val).val) =
            AttribSet(CarriedAttribs(call.args[1]).val)
            \cup AttribSet(CarriedAttribs(call.args[2]).val)

\* C27: a DirectoryExclusionFilter combined from JUNCTION_POINTS and non-empty PathOrName
\* values emits /xd exactly when its path list is non-empty; JUNCTION_POINTS + JUNCTION_POINTS
\* serializes to the single token /xjd and decomposes to [JUNCTION_POINTS]
C27_XdOnlyWithPaths ==
    (family = "DirectoryExclusionFilter" /\ call.op \in {"chain", "add"} /\ call.out.ok) =>
        LET tokens == DirectoryExclusionFilter_into_Vec(call.out.val)
        IN  /\ tokens.ok
            /\ ("/xd" \in Range(tokens.val)) <=> (PathsOf(call.out.val) # <<>>)
            /\ call.args = <<Atom("JUNCTION_POINTS"), Atom("JUNCTION_POINTS")>> =>
                  /\ tokens.val = <<"/xjd">>
                  /\ DirectoryExclusionFilter_single_variants(call.out.val)
                       = <<Atom("JUNCTION_POINTS")>>

-----------------------------------------------------------------------------
(* The caller of the flag and logging serializations *)

FlagFamilies == {"FileAttributes", "FileProperties", "DirectoryProperties"}

\* every value of a flag family: the unit variants and every presence vector
FlagValues(f) == Atoms(f) \cup {Multiple(bits) : bits \in [1..Len(VARIANTS(f)) -> BOOLEAN]}

InitFlags ==
    /\ family = "none"
    /\ overflow_checks \in BOOLEAN
    /\ regs = <<>>
    /\ src = <<>>
    /\ call = NoCall
    /\ child = NotStarted
    /\ result = NoResult
    /\ options \in UNION {{[type |-> f, value |-> v] : v \in FlagValues(f)} : f \in FlagFamilies}
    /\ builder = NoBuilder
    /\ command = NoCommand

\* let token: OsString = (&flags).into();
FlagsIntoOsString ==
    /\ result = NoResult
    /\ result' = [op |-> "flags_into_OsString", ret |-> Tokens(options.type, options.value)]
    /\ UNCHANGED <<family, overflow_checks, regs, src, call, child, options, builder, command>>

NextFlags == FlagsIntoOsString

SpecFlags == InitFlags /\ [][NextFlags]_vars

LogFileSettingsValues ==
    [ log : {Path("copy.log", TRUE), Path("copy_?.log", FALSE)},
      unicode : BOOLEAN,
      append : BOOLEAN ]

LoggingOptionsValues ==
    [ only_log : BOOLEAN, report_extra : BOOLEAN, verbose : BOOLEAN, time_stamps : BOOLEAN,
      full_path_names : BOOLEAN, sizes_bytes : BOOLEAN, dont_log_size : BOOLEAN,
      dont_log_class : BOOLEAN, dont_log_file_names : BOOLEAN, dont_log_dir_names : BOOLEAN,
      no_progress_display : BOOLEAN, show_estimated_time_of_arrival : BOOLEAN,
      log_file : OptionOf(LogFileSettingsValues), combination_log : BOOLEAN,
      dont_log_header : BOOLEAN, dont_log_summary : BOOLEAN, unicode : BOOLEAN ]

InitLogging ==
    /\ family = "none"
    /\ overflow_checks = TRUE
    /\ regs = <<>>
    /\ src = <<>>
    /\ call = NoCall
    /\ child = NotStarted
    /\ result = NoResult
    /\ options \in {[type |-> "LoggingOptions", value |-> lo] : lo \in LoggingOptionsValues}
    /\ builder = NoBuilder
    /\ command = NoCommand

\* let tokens: Vec<OsString> = (&logging).into();
LoggingIntoVec ==
    /\ result = NoResult
    /\ result' = [op |-> "logging_into_Vec", ret |-> LoggingOptions_into_Vec(options.value)]
    /\ UNCHANGED <<family, overflow_checks, regs, src, call, child, options, builder, command>>

NextLogging == LoggingIntoVec

SpecLogging == InitLogging /\ [][NextLogging]_vars

-----------------------------------------------------------------------------
(* Properties of the flag serializations, checked under SpecFlags *)

\* the unit variants a presence vector marks present
PresentFlags(f, v) == {VARIANTS(f)[k] : k \in {i \in DOMAIN v.flags : v.flags[i]}}

\* C24: a combined FileAttributes value serializes to one string with the letters of its
\* present flags, each once, in the order R, A, S, H, C, N, E, T; a combined FileProperties
\* value to /copy:<letters> in the order D, A, T, S, O, U; a combined DirectoryProperties
\* value to /dcopy:<letters> in the order D, A, T
C24_LettersInFixedOrder ==
    (result.op = "flags_into_OsString" /\ options.value.tag = "_MULTIPLE") =>
        /\ result.ret = CanonicalTokens(options.type, PresentFlags(options.type, options.value))
        /\ options.value = FileAttributes_all => result.ret = Ok(<<"RASHCNET">>)
        /\ options.value = FileProperties_all => result.ret = Ok(<<"/copy:DATSOU">>)
        /\ options.value = DirectoryProperties_all => result.ret = Ok(<<"/dcopy:DAT">>)

C24_Witness ==
    /\ result.op = "flags_into_OsString"
    /\ options.type = "FileAttributes"
    /\ options.value = Multiple(<<TRUE, FALSE, TRUE, FALSE, FALSE, FALSE, FALSE, TRUE>>)
    /\ result.ret = Ok(<<"RST">>)

-----------------------------------------------------------------------------
(* Properties of the logging serialization, checked under SpecLogging *)

\* the tokens of the fields of lo that are set, in the order of the pairs <<field, token>>
FlagTokens(lo, pairs) ==
    LET set == SelectSeq(pairs, LAMBDA p: lo[p[1]])
    IN  [k \in 1..Len(set) |-> set[k][2]]

LogFileToken(ls) ==
    (CASE ~ls.unicode /\ ~ls.append -> "/log:"
       [] ~ls.unicode /\ ls.append -> "/log+:"
       [] ls.unicode /\ ~ls.append -> "/unilog:"
       [] ls.unicode /\ ls.append -> "/unilog+:") \o ls.log.os

\* C25: every LoggingOptions field contributes its token exactly when it is set, whatever the
\* other fields are, in the order /l, /x, /v, /ts, /fp, /bytes, /ns, /nc, /nfl, /ndl, /np,
\* /eta, log-file token, /tee, /njh, /njs, /unicode; the log-file token is /log:, /log+:,
\* /unilog: or /unilog+: followed by the path; the default value emits nothing
C25_LoggingTokens ==
    (result.op = "logging_into_Vec") =>
        LET lo == options.value
        IN  result.ret =
              Ok( FlagTokens(lo, << <<"only_log", "/l">>, <<"report_extra", "/x">>,
                                    <<"verbose", "/v">>, <<"time_stamps", "/ts">>,
                                    <<"full_path_names", "/fp">>, <<"sizes_bytes", "/bytes">>,
                                    <<"dont_log_size", "/ns">>, <<"dont_log_class", "/nc">>,
                                    <<"dont_log_file_names", "/nfl">>,
                                    <<"dont_log_dir_names", "/ndl">>,
                                    <<"no_progress_display", "/np">>,
                                    <<"show_estimated_time_of_arrival", "/eta">> >>)
                  \o (IF lo.log_file.tag = "Some"
                      THEN <<LogFileToken(lo.log_file.val)>> ELSE <<>>)
                  \o FlagTokens(lo, << <<"combination_log", "/tee">>,
                                       <<"dont_log_header", "/njh">>,
                                       <<"dont_log_summary", "/njs">>,
                                       <<"unicode", "/unicode">> >>) )

-----------------------------------------------------------------------------
(* Further properties of build, checked under SpecBuild *)

\* C26: the arguments build emits contain exactly one token among /e and /s: /e when
\* empty_dir_copy is true, /s when it is false; so does the default builder's command
C26_ExactlyOneOfEAndS ==
    (command.op = "build") =>
        LET at == {i \in DOMAIN command.args : command.args[i] \in {"/e", "/s"}}
        IN  /\ Cardinality(at) = 1
            /\ \A i \in at : command.args[i] = (IF builder.empty_dir_copy THEN "/e" ELSE "/s")

C26_Witness ==
    /\ command.op = "build"
    /\ builder.empty_dir_copy
    /\ ~builder.remove_files_and_dirs_not_in_src
    /\ builder.filter = Some(FullFilter)
    /\ \E i \in DOMAIN command.args : command.args[i] = "/e"

\* C28: when empty_dir_copy or remove_files_and_dirs_not_in_src is false, build gives the
\* same result whether overwrite_destination_dir_sec_settings_when_mirror is true or false,
\* and /mir is not emitted
C28_OverwriteAloneHasNoEffect ==
    ( /\ command.op = "build"
      /\ ~(builder.empty_dir_copy /\ builder.remove_files_and_dirs_not_in_src) )
    => LET other == [builder EXCEPT
                       !.overwrite_destination_dir_sec_settings_when_mirror = ~@]
       IN  /\ RobocopyCommandBuilder_build(other).args = command.args
           /\ RobocopyCommandBuilder_build(other).ret = command.ret
           /\ \A i \in DOMAIN command.args : command.args[i] # "/mir"

C28_Witness ==
    /\ command.op = "build"
    /\ builder.overwrite_destination_dir_sec_settings_when_mirror
    /\ builder.empty_dir_copy
    /\ ~builder.remove_files_and_dirs_not_in_src
    /\ builder.logging = Some(FullLogging)
    /\ command.ret.ok

=============================================================================
